---- MODULE Spec2Model ----
(***************************************************************************)
(* Model of app/src/main/cpp/native-lib.cpp: the RNNoise JNI filter.       *)
(*                                                                         *)
(*   - the sample codec (s16_to_float, float_to_s16) over IEEE binary32    *)
(*     values, computed with round-to-nearest-even on a 24 bit mantissa;   *)
(*   - the engine lifecycle (JNI_OnLoad, JNI_OnUnload) over the static     *)
(*     rnnoise_state pointer;                                              *)
(*   - process_audio_with_rnnoise, one step per loop iteration.            *)
(*                                                                         *)
(* A float is a record [m, e] standing for m * 2^e, with m = 0 (and e = 0) *)
(* or 2^23 <= |m| < 2^24.  Only finite, normal values are modelled: the    *)
(* inputs are drawn from sets whose exponents keep every result far from   *)
(* overflow and underflow.                                                 *)
(***************************************************************************)
EXTENDS Integers, Sequences, FiniteSets

\* ---------------------------------------------------------------- bounds

\* Capacity, in int16 samples, of the caller's buffer (two full frames and
\* three more samples when mono).
BufCap == 963
\* Largest channel count passed to a call.
MaxChannels == 2
\* Number of engine instances rnnoise_create can hand out before it fails.
MaxEngines == 2

\* ------------------------------------------------------------- constants

RNNOISE_FRAME_SIZE == 480
S16_MAX == 32767
S16_MIN == -32768
MANT_BITS == 24
NULL == 0

\* ----------------------------------------------------- binary32 arithmetic

Abs(x) == IF x < 0 THEN -x ELSE x
Sgn(x) == IF x < 0 THEN -1 ELSE IF x = 0 THEN 0 ELSE 1
Pow2(n) == 2 ^ n
Min(a, b) == IF a < b THEN a ELSE b

\* The number of bits of n >= 0: the b with 2^(b-1) <= n < 2^b.
BitLen(n) == IF n = 0 THEN 0 ELSE CHOOSE b \in 1 .. 31 : n \div Pow2(b - 1) = 1

FZero == [m |-> 0, e |-> 0]

\* The binary32 value nearest to sgn * (M + f) * 2^E, where 0 < f < 1 when
\* sticky and f = 0 otherwise; ties go to the even mantissa.
RoundF32(sgn, M, E, sticky) ==
    IF M = 0 THEN FZero
    ELSE LET b == BitLen(M) IN
         IF b <= MANT_BITS
         THEN [m |-> sgn * M * Pow2(MANT_BITS - b), e |-> E - (MANT_BITS - b)]
         ELSE LET k    == b - MANT_BITS
                  q    == M \div Pow2(k)
                  r    == M % Pow2(k)
                  half == Pow2(k - 1)
                  up   == IF sticky THEN r >= half
                          ELSE r > half \/ (r = half /\ q % 2 = 1)
                  q1   == IF up THEN q + 1 ELSE q
              IN IF q1 = Pow2(MANT_BITS)
                 THEN [m |-> sgn * Pow2(MANT_BITS - 1), e |-> E + k + 1]
                 ELSE [m |-> sgn * q1, e |-> E + k]

\* The float with the value n * 2^e, for an integer n of at most 24 bits.
MkFloat(n, e) == RoundF32(Sgn(n), Abs(n), e, FALSE)

FNeg(a) == [m |-> -a.m, e |-> a.e]
FAbs(a) == [m |-> Abs(a.m), e |-> a.e]

\* a + b, rounded.  The operand of larger exponent is kept with six extra
\* low bits; what the other loses below them is the sticky bit.
FAdd(a, b) ==
    IF a.m = 0 THEN b
    ELSE IF b.m = 0 THEN a
    ELSE LET hi == IF a.e >= b.e THEN a ELSE b
             lo == IF a.e >= b.e THEN b ELSE a
             d  == hi.e - lo.e
         IN IF d <= 6
            THEN LET T == hi.m * Pow2(d) + lo.m
                 IN RoundF32(Sgn(T), Abs(T), lo.e, FALSE)
            ELSE LET sh    == d - 6
                     big   == Abs(hi.m) * 64
                     q     == IF sh > 30 THEN 0 ELSE Abs(lo.m) \div Pow2(sh)
                     exact == sh <= 30 /\ Abs(lo.m) % Pow2(sh) = 0
                     M     == IF Sgn(hi.m) = Sgn(lo.m) THEN big + q
                              ELSE IF exact THEN big - q
                              ELSE big - q - 1
                 IN RoundF32(Sgn(hi.m), M, hi.e - 6, ~exact)

FSub(a, b) == FAdd(a, FNeg(b))

\* a * b, rounded: the 48 bit product of the mantissas from 12 bit limbs.
FMul(a, b) ==
    IF a.m = 0 \/ b.m = 0 THEN FZero
    ELSE LET ma  == Abs(a.m)
             mb  == Abs(b.m)
             a1  == ma \div 4096
             a0  == ma % 4096
             b1  == mb \div 4096
             b0  == mb % 4096
             mid == a1 * b0 + a0 * b1
             low == (mid % 4096) * 4096 + a0 * b0
             hi  == a1 * b1 + mid \div 4096 + low \div Pow2(24)
             lo  == low % Pow2(24)
         IN RoundF32(Sgn(a.m) * Sgn(b.m), hi * 64 + lo \div Pow2(18),
                     a.e + b.e + 18, lo % Pow2(18) # 0)

\* a < b
FLt(a, b) ==
    LET sa == Sgn(a.m)
        sb == Sgn(b.m)
    IN IF sa # sb THEN sa < sb
       ELSE IF sa = 0 THEN FALSE
       ELSE IF sa = 1 THEN a.e < b.e \/ (a.e = b.e /\ a.m < b.m)
       ELSE a.e > b.e \/ (a.e = b.e /\ a.m < b.m)

FLe(a, b) == ~FLt(b, a)

\* static_cast<int16_t>(f) for |f| < 32768: truncation toward zero.
TruncToInt(f) ==
    IF f.m = 0 THEN 0
    ELSE IF f.e >= 0 THEN f.m * Pow2(f.e)
    ELSE IF -f.e > 30 THEN 0
    ELSE Sgn(f.m) * (Abs(f.m) \div Pow2(-f.e))

FOne == MkFloat(1, 0)
FMinusOne == MkFloat(-1, 0)
F32767 == MkFloat(S16_MAX, 0)
FMinus32768 == MkFloat(S16_MIN, 0)

\* ----------------------------------------------------------- sample codec

\* static_cast<float>(sample) / 32768.0f: exact, 32768 = 2^15.
s16_to_float(sample) == MkFloat(sample, -15)

float_to_s16(sample) ==
    LET scaled == FMul(sample, F32767)
    IN IF FLe(F32767, scaled) THEN S16_MAX
       ELSE IF FLe(scaled, FMinus32768) THEN S16_MIN
       ELSE TruncToInt(scaled)

\* ------------------------------------------------- per-sample processing

\* Lines 128-131: float_out[i] = float_original[i] - (noise_reduction * strength).
\* Blend with the two signals swapped in the final subtraction.
BlendSwapped(original, denoised, str) ==
    LET noise_reduction == FSub(original, denoised)
    IN FSub(denoised, FMul(noise_reduction, str))

\* Blend that drops the strength factor.
BlendFull(original, denoised, str) ==
    LET noise_reduction == FSub(original, denoised)
    IN FSub(original, noise_reduction)

Blend(original, denoised, str) ==
    LET noise_reduction == FSub(original, denoised)
    IN FSub(original, FMul(noise_reduction, str))

\* The gate applied whether or not it is enabled.
GateAlways(b, thr, gating) ==
    IF FLt(FAbs(b), thr) THEN FZero ELSE b

\* Lines 134-136: the spectral gate.
Gate(b, thr, gating) ==
    IF gating /\ FLt(FAbs(b), thr) THEN FZero ELSE b

\* No clamp at all.
ClampNone(x) == x

\* Lines 139-140.
Clamp(x) ==
    IF FLt(FOne, x) THEN FOne
    ELSE IF FLt(x, FMinusOne) THEN FMinusOne
    ELSE x

\* Lines 133-140: what is left in float_out[i] once gated and clamped.
ProcessedSample(b, thr, gating) ==
    Clamp(Gate(b, thr, gating))

\* Lines 113 and 145: the interleaved position of channel 0's sample i of
\* the frame that starts at frame_start.
SampleIndex(frame_start, i, nch) == (frame_start + i) * nch

\* The i with SampleIndex(frame_start, i, nch) = p, or -1 when p is no
\* position of channel 0.
FrameSlot(frame_start, p, nch) ==
    IF p % nch = 0 THEN (p \div nch) - frame_start ELSE -1

\* Line 106.
SamplesInFrame(samples_per_channel, frame_start) ==
    Min(RNNOISE_FRAME_SIZE, samples_per_channel - frame_start)

\* The whole frame written back, padding included.
WriteBackCountPadded(samples_in_frame) == RNNOISE_FRAME_SIZE

\* Line 144: how many samples of the frame are written back.
WriteBackCount(samples_in_frame) == samples_in_frame

\* The channel count checked before the engine.
EntryCheckChannelsFirst(state, nch, nsamples) ==
    IF nch <= 0 THEN "InvalidChannelCount"
    ELSE IF state = NULL THEN "EngineUnavailable"
    ELSE IF nsamples <= 0 THEN "Empty"
    ELSE "Process"

\* The sample count checked before the channel count.
EntryCheckSamplesFirst(state, nch, nsamples) ==
    IF state = NULL THEN "EngineUnavailable"
    ELSE IF nsamples <= 0 THEN "Empty"
    ELSE IF nch <= 0 THEN "InvalidChannelCount"
    ELSE "Process"

\* An empty chunk refused like a bad channel count.
EntryCheckEmptyFails(state, nch, nsamples) ==
    IF state = NULL THEN "EngineUnavailable"
    ELSE IF nch <= 0 THEN "InvalidChannelCount"
    ELSE IF nsamples <= 0 THEN "InvalidChannelCount"
    ELSE "Process"

\* Lines 75-86: the checks made on entry, in the code's order.
EntryCheck(state, nch, nsamples) ==
    IF state = NULL THEN "EngineUnavailable"
    ELSE IF nch <= 0 THEN "InvalidChannelCount"
    ELSE IF nsamples <= 0 THEN "Empty"
    ELSE "Process"

\* ------------------------------------------------------------ input sets

\* int16 values the caller's buffer is filled with.
SampleVals == <<0, 1, -1, 32767, -32768, 16384, -16384, 24576, 100, -12345, 2>>

\* Values the denoise engine may put in a frame: inside [-1, 1], on its
\* edges, far outside, the float nearest 1/32767, and -32769/32768, the
\* first value float_to_s16 saturates to -32768.
OutVals == <<FZero, FOne, FMinusOne, MkFloat(5, 0), MkFloat(-5, 0), MkFloat(1, -1),
             MkFloat(32769, -30), MkFloat(1, -15), MkFloat(-3, -2),
             MkFloat(-32769, -15), MkFloat(1000000, 0), MkFloat(100, -15),
             MkFloat(-1, -20)>>

\* 0.0, 1.0, 0.3f, 2.0 and -1.0
StrengthVals == <<FZero, FOne, MkFloat(10066330, -25), MkFloat(2, 0), FMinusOne>>
\* 0.0, 0.5 and 2.0
ThresholdVals == <<FZero, MkFloat(1, -1), MkFloat(2, 0)>>
SampleRates == {48000, 44100}
NumSamplesChoices == {-1, 0, 1, 2 * RNNOISE_FRAME_SIZE, BufCap}
ChannelChoices == -1 .. MaxChannels
\* Phases of the caller's buffer content and of the engine's output.
BufferPatterns == {0}
EngineFrames == {0, 1}

Positions == 0 .. (BufCap - 1)
FrameIdx == 0 .. (RNNOISE_FRAME_SIZE - 1)
EngineIds == 1 .. MaxEngines

Range(f) == {f[k] : k \in DOMAIN f}
IndexIn(seq, v) == CHOOSE k \in DOMAIN seq : seq[k] = v

\* The caller's buffer: SampleVals repeated from phase pat.
InputBuf == [pat \in BufferPatterns |->
                [p \in Positions |-> SampleVals[((p + pat) % Len(SampleVals)) + 1]]]
\* The index in OutVals of sample i of the engine's frame of phase pat.
OutIdx(pat, i) == ((i + pat) % Len(OutVals)) + 1
\* A frame of the engine: OutVals repeated from phase pat.
EngineFrame == [pat \in EngineFrames |-> [i \in FrameIdx |-> OutVals[OutIdx(pat, i)]]]
ZeroFrame == [i \in FrameIdx |-> FZero]

\* The codec and the per-sample steps, evaluated once for each combination
\* of the values above and looked up by the loop: k indexes SampleVals (the
\* int16 read from the buffer), j OutVals, s StrengthVals, t ThresholdVals.
SampleKey == [x \in Range(SampleVals) |-> IndexIn(SampleVals, x)]
ToFloatTab == [k \in DOMAIN SampleVals |-> s16_to_float(SampleVals[k])]
NOut == Len(OutVals)
NStrength == Len(StrengthVals)
NThreshold == Len(ThresholdVals)
BlendKey(k, j, s) == ((k - 1) * NOut + (j - 1)) * NStrength + s
ProcKey(k, j, s, t, g) ==
    ((BlendKey(k, j, s) - 1) * NThreshold + (t - 1)) * 2 + (IF g THEN 2 ELSE 1)
\* The operands behind a key.
BlendAt(c) ==
    LET s == ((c - 1) % NStrength) + 1
        j == (((c - 1) \div NStrength) % NOut) + 1
        k == ((c - 1) \div (NStrength * NOut)) + 1
    IN Blend(s16_to_float(SampleVals[k]), OutVals[j], StrengthVals[s])
ProcessedAt(c) ==
    LET g == ((c - 1) % 2) = 1
        t == (((c - 1) \div 2) % NThreshold) + 1
        b == ((c - 1) \div (2 * NThreshold)) + 1
    IN ProcessedSample(BlendAt(b), ThresholdVals[t], g)
BlendTab == [c \in 1 .. (Len(SampleVals) * NOut * NStrength) |-> BlendAt(c)]
ProcessedTab ==
    [c \in 1 .. (Len(SampleVals) * NOut * NStrength * NThreshold * 2) |-> ProcessedAt(c)]
WrittenTab ==
    [c \in 1 .. (Len(SampleVals) * NOut * NStrength * NThreshold * 2) |->
        float_to_s16(ProcessedAt(c))]
\* float_to_s16 of the engine's raw output.
RawS16 == [j \in DOMAIN OutVals |-> float_to_s16(OutVals[j])]

\* ------------------------------------------------------------------ state

VARIABLES
    rnnoise_state,      \* line 20: NULL or the id of an engine instance
    engines,            \* each instance: "unborn", "live" or "destroyed"
    destroy_calls,      \* number of rnnoise_destroy calls made
    load_result,        \* what the last JNI_OnLoad returned
    last_lifecycle,     \* the last lifecycle call completed
    pcL,                \* position of the lifecycle call: "idle", "create", "clear"
    pcP,                \* position of the processing call: "idle", "loop", "done"
    samples,            \* the caller's buffer
    input,              \* the buffer as it was on entry
    numSamples, channels, strength, gateThreshold, useSpectralGating,
    state_seen,         \* rnnoise_state as read at line 75
    frame_start_sample, \* line 105
    samples_in_this_frame, \* line 106, of the last frame processed
    float_original,     \* line 100 (float_in holds the same values)
    engine_out,         \* float_out as rnnoise_process_frame left it (line 123)
    blended,            \* float_out after line 131
    float_out,          \* float_out after line 140
    engine_calls,       \* rnnoise_process_frame calls made by this call
    stale_use,          \* a destroyed instance was read at line 75 or passed at line 123
    result              \* how the call ended

lifecycleVars == <<rnnoise_state, engines, destroy_calls, load_result, last_lifecycle, pcL>>
argVars == <<numSamples, channels, strength, gateThreshold, useSpectralGating>>
frameVars == <<samples_in_this_frame, float_original, engine_out, blended, float_out>>
callVars == <<pcP, samples, input, argVars, state_seen, frame_start_sample, frameVars,
              engine_calls, stale_use, result>>
vars == <<lifecycleVars, callVars>>

ZeroBuf == [p \in Positions |-> 0]

\* No call in progress: the arguments and locals of the last call are gone.
\* The three static frames (lines 98-100) are rewritten in full by lines
\* 111-123 before any read, so what a call leaves in them is dropped too.
NoCall ==
    /\ pcP = "idle"
    /\ samples = ZeroBuf
    /\ input = ZeroBuf
    /\ numSamples = 0
    /\ channels = 0
    /\ strength = FZero
    /\ gateThreshold = FZero
    /\ useSpectralGating = FALSE
    /\ state_seen = NULL
    /\ frame_start_sample = 0
    /\ samples_in_this_frame = 0
    /\ float_original = ZeroFrame
    /\ engine_out = ZeroFrame
    /\ blended = ZeroFrame
    /\ float_out = ZeroFrame
    /\ engine_calls = 0
    /\ stale_use = FALSE
    /\ result = "none"

\* The same, of the next state.
ClearCall ==
    /\ pcP' = "idle"
    /\ samples' = ZeroBuf
    /\ input' = ZeroBuf
    /\ numSamples' = 0
    /\ channels' = 0
    /\ strength' = FZero
    /\ gateThreshold' = FZero
    /\ useSpectralGating' = FALSE
    /\ state_seen' = NULL
    /\ frame_start_sample' = 0
    /\ samples_in_this_frame' = 0
    /\ float_original' = ZeroFrame
    /\ engine_out' = ZeroFrame
    /\ blended' = ZeroFrame
    /\ float_out' = ZeroFrame
    /\ engine_calls' = 0
    /\ stale_use' = FALSE
    /\ result' = "none"

Init ==
    /\ rnnoise_state = NULL
    /\ engines = [id \in EngineIds |-> "unborn"]
    /\ destroy_calls = 0
    /\ load_result = "none"
    /\ last_lifecycle = "none"
    /\ pcL = "idle"
    /\ NoCall

\* ------------------------------------------------------ engine lifecycle

\* rnnoise_destroy(st)
Destroyed(st) == [engines EXCEPT ![st] = "destroyed"]

\* JNI_OnLoad that goes on to rnnoise_create without destroying the
\* instance it holds.
JNI_OnLoad_NoDestroy ==
    /\ pcL = "idle"
    /\ pcL' = "create"
    /\ UNCHANGED <<engines, destroy_calls, rnnoise_state, load_result, last_lifecycle, callVars>>

\* Lines 42-47: JNI_OnLoad up to the destruction of an existing instance.
JNI_OnLoad_Destroy ==
    /\ pcL = "idle"
    /\ IF rnnoise_state # NULL
       THEN /\ engines' = Destroyed(rnnoise_state)
            /\ destroy_calls' = destroy_calls + 1
       ELSE UNCHANGED <<engines, destroy_calls>>
    /\ pcL' = "create"
    /\ UNCHANGED <<rnnoise_state, load_result, last_lifecycle, callVars>>

\* Lines 48-55: rnnoise_create and its result.  It fails at will, and always
\* once MaxEngines instances have been handed out.
JNI_OnLoad_Create ==
    /\ pcL = "create"
    /\ \E ok \in BOOLEAN :
         LET unborn == {id \in EngineIds : engines[id] = "unborn"}
         IN IF ok /\ unborn # {}
            THEN LET id == CHOOSE x \in unborn : \A y \in unborn : x <= y
                 IN /\ engines' = [engines EXCEPT ![id] = "live"]
                    /\ rnnoise_state' = id
                    /\ load_result' = "JNI_VERSION_1_6"
            ELSE /\ rnnoise_state' = NULL
                 /\ load_result' = "JNI_ERR"
                 /\ UNCHANGED engines
    /\ pcL' = "idle"
    /\ last_lifecycle' = "load"
    /\ UNCHANGED <<destroy_calls, callVars>>

\* Lines 57-60: JNI_OnUnload up to rnnoise_destroy; nothing to do when the
\* pointer is null.
JNI_OnUnload_Destroy ==
    /\ pcL = "idle"
    /\ IF rnnoise_state # NULL
       THEN /\ engines' = Destroyed(rnnoise_state)
            /\ destroy_calls' = destroy_calls + 1
            /\ pcL' = "clear"
            /\ UNCHANGED last_lifecycle
       ELSE /\ last_lifecycle' = "unload_noop"
            /\ UNCHANGED <<engines, destroy_calls, pcL>>
    /\ UNCHANGED <<rnnoise_state, load_result, callVars>>

\* Lines 61-63.
JNI_OnUnload_Clear ==
    /\ pcL = "clear"
    /\ rnnoise_state' = NULL
    /\ pcL' = "idle"
    /\ last_lifecycle' = "unload"
    /\ UNCHANGED <<engines, destroy_calls, load_result, callVars>>

\* ------------------------------------------- process_audio_with_rnnoise

IsStale(st) == st # NULL /\ engines[st] = "destroyed"

\* Lines 73-102: entry, the three checks and samples_per_channel.  The
\* sample rate only decides whether line 91 logs a warning.
ProcessEnter(nsamples, nch, rate, st, thr, gate, pat) ==
    /\ pcP = "idle"
    /\ samples' = InputBuf[pat]
    /\ input' = InputBuf[pat]
    /\ numSamples' = nsamples
    /\ channels' = nch
    /\ strength' = st
    /\ gateThreshold' = thr
    /\ useSpectralGating' = gate
    /\ state_seen' = rnnoise_state
    /\ stale_use' = IsStale(rnnoise_state)
    /\ frame_start_sample' = 0
    /\ LET check == EntryCheck(rnnoise_state, nch, nsamples)
       IN IF check = "Process"
          THEN IF 0 < nsamples \div nch
               THEN pcP' = "loop" /\ result' = "none"
               ELSE pcP' = "done" /\ result' = "Ok"
          ELSE /\ pcP' = "done"
               /\ result' = IF check = "Empty" THEN "Ok" ELSE check
    /\ UNCHANGED <<lifecycleVars, frameVars, engine_calls>>

\* Lines 105-153: one iteration of the frame loop.  The pointer passed at
\* line 123 is the one read at line 75 or a fresh read of rnnoise_state;
\* the engine answers with any of its frames.
ProcessFrame ==
    /\ pcP = "loop"
    /\ \E pat \in EngineFrames, st \in {state_seen, rnnoise_state},
          samples_per_channel \in {numSamples \div channels},
          s \in {IndexIn(StrengthVals, strength)},
          t \in {IndexIn(ThresholdVals, gateThreshold)} :
       \E n \in {SamplesInFrame(samples_per_channel, frame_start_sample)} :
       \E w \in {WriteBackCount(n)} :
         LET \* the int16 behind float_in[i]: read at line 113, or the
             \* zero of the padding of lines 117-120
             x(i) == IF i < n THEN samples[SampleIndex(frame_start_sample, i, channels)]
                     ELSE 0
             next == frame_start_sample + RNNOISE_FRAME_SIZE
         IN /\ samples_in_this_frame' = n
            /\ float_original' = [i \in FrameIdx |-> ToFloatTab[SampleKey[x(i)]]]
            /\ engine_out' = EngineFrame[pat]
            /\ blended' = [i \in FrameIdx |-> BlendTab[BlendKey(SampleKey[x(i)], OutIdx(pat, i), s)]]
            /\ float_out' = [i \in FrameIdx |->
                   ProcessedTab[ProcKey(SampleKey[x(i)], OutIdx(pat, i), s, t, useSpectralGating)]]
            /\ samples' = [p \in Positions |->
                   LET i == FrameSlot(frame_start_sample, p, channels)
                   IN IF 0 <= i /\ i < w
                      THEN WrittenTab[ProcKey(SampleKey[x(i)], OutIdx(pat, i), s, t, useSpectralGating)]
                      ELSE samples[p]]
            /\ engine_calls' = engine_calls + 1
            /\ stale_use' = (stale_use \/ IsStale(st))
            /\ frame_start_sample' = next
            /\ IF next < samples_per_channel
               THEN pcP' = "loop" /\ result' = "none"
               ELSE pcP' = "done" /\ result' = "Ok"
    /\ UNCHANGED <<lifecycleVars, input, argVars, state_seen>>

\* Line 155 and lines 176-182, 199-204: the call returns.
ProcessReturn ==
    /\ pcP = "done"
    /\ ClearCall
    /\ UNCHANGED lifecycleVars

\* ---------------------------------------------------------- specifications

AnyCall ==
    \E nsamples \in NumSamplesChoices, nch \in ChannelChoices, rate \in SampleRates,
       st \in Range(StrengthVals), thr \in Range(ThresholdVals), gate \in BOOLEAN,
       pat \in BufferPatterns :
        ProcessEnter(nsamples, nch, rate, st, thr, gate, pat)

\* Section 5 of the design and the comment at line 97: calls do not overlap.
Next ==
    \/ pcP = "idle" /\ JNI_OnLoad_Destroy
    \/ JNI_OnLoad_Create
    \/ pcP = "idle" /\ JNI_OnUnload_Destroy
    \/ JNI_OnUnload_Clear
    \/ pcL = "idle" /\ AnyCall
    \/ ProcessFrame
    \/ ProcessReturn

Spec == Init /\ [][Next]_vars

\* The code as it stands takes no lock: a lifecycle call and a processing
\* call on another thread interleave freely.  The signal parameters play no
\* part in what happens to the pointer and are fixed here.
RaceCall ==
    \E nsamples \in {0, BufCap}, nch \in {0, 1}, pat \in BufferPatterns :
        ProcessEnter(nsamples, nch, 48000, FOne, FZero, FALSE, pat)

RaceNext ==
    \/ JNI_OnLoad_Destroy
    \/ JNI_OnLoad_Create
    \/ JNI_OnUnload_Destroy
    \/ JNI_OnUnload_Clear
    \/ RaceCall
    \/ ProcessFrame
    \/ ProcessReturn

SpecRace == Init /\ [][RaceNext]_vars

\* ------------------------------------------------------------- properties

\* A frame has been processed by the call in progress; the frame variables
\* hold that frame.
FrameDone == pcP \in {"loop", "done"} /\ engine_calls > 0
\* Line 145: the buffer position sample i of that frame was written to.
LastPos(i) == SampleIndex(frame_start_sample - RNNOISE_FRAME_SIZE, i, channels)
\* The indices of that frame that were written back (line 144).
Written == {i \in FrameIdx : i < samples_in_this_frame}
Live == {id \in EngineIds : engines[id] = "live"}
Gone == {id \in EngineIds : engines[id] = "destroyed"}

\* C1: in a call with channels >= 1 and numSamples >= 1 that succeeds, a
\* buffer position that differs from the input is k * channels for some
\* k < numSamples / channels: other channels, the trailing remainder, the
\* positions past numSamples and the padded tail are never written.
C1_OnlyChannelZeroWritten ==
    (pcP \in {"loop", "done"} /\ result \in {"none", "Ok"} /\ channels >= 1 /\ numSamples >= 1)
        => \A p \in Positions :
              samples[p] # input[p]
                  => p % channels = 0 /\ p \div channels < numSamples \div channels

\* A stereo call over the whole buffer has finished: its second frame was
\* partial, channel 0 changed and the sample after it did not.
C1_Witness ==
    /\ pcP = "done" /\ result = "Ok"
    /\ channels = 2 /\ numSamples = BufCap
    /\ engine_calls = 2 /\ samples_in_this_frame < RNNOISE_FRAME_SIZE
    /\ samples[2] # input[2]
    /\ samples[BufCap - 1] = input[BufCap - 1]

\* C2 as stated: a call with channels <= 0 leaves the buffer unchanged,
\* makes no engine call and fails with InvalidChannelCount, engine present
\* or absent.
C2_Original ==
    (pcP = "done" /\ channels <= 0)
        => samples = input /\ engine_calls = 0 /\ result = "InvalidChannelCount"

\* C2 amended: a call with channels <= 0 leaves the buffer unchanged and
\* makes no engine call; it fails with InvalidChannelCount when the engine
\* is present and with EngineUnavailable when it is absent.
C2_InvalidChannelCount ==
    (pcP = "done" /\ channels <= 0)
        => /\ samples = input
           /\ engine_calls = 0
           /\ result = IF state_seen = NULL THEN "EngineUnavailable"
                       ELSE "InvalidChannelCount"

\* Both cases of the amended C2 happen; here the one with the engine
\* present and an empty chunk.
C2_Witness ==
    /\ pcP = "done" /\ channels <= 0 /\ numSamples <= 0
    /\ state_seen # NULL /\ result = "InvalidChannelCount"

\* C3 as stated: a call with numSamples <= 0 leaves the buffer unchanged
\* and succeeds, whatever channels is, engine present or absent.
C3_Original ==
    (pcP = "done" /\ numSamples <= 0) => samples = input /\ result = "Ok"

\* C3 amended: a call with numSamples <= 0 leaves the buffer unchanged and
\* makes no engine call; it succeeds when the engine is present and
\* channels >= 1, and fails as the earlier checks say otherwise.
C3_EmptyChunk ==
    (pcP = "done" /\ numSamples <= 0)
        => /\ samples = input
           /\ engine_calls = 0
           /\ result = IF state_seen = NULL THEN "EngineUnavailable"
                       ELSE IF channels <= 0 THEN "InvalidChannelCount"
                       ELSE "Ok"

\* An empty chunk was accepted.
C3_Witness ==
    /\ pcP = "done" /\ numSamples <= 0 /\ channels >= 1
    /\ state_seen # NULL /\ result = "Ok" /\ samples = input

\* C4: a call made while the engine handle is absent fails with
\* EngineUnavailable and leaves the buffer unchanged, and the handle is
\* absent from a failed JNI_OnLoad until a later one succeeds.
C4_EngineUnavailable ==
    /\ (pcP = "done" /\ state_seen = NULL)
           => result = "EngineUnavailable" /\ samples = input /\ engine_calls = 0
    /\ load_result = "JNI_ERR" => rnnoise_state = NULL

\* A well-formed call was refused after a JNI_OnLoad that failed.
C4_Witness ==
    /\ pcP = "done" /\ result = "EngineUnavailable"
    /\ load_result = "JNI_ERR"
    /\ channels = 1 /\ numSamples = BufCap

\* C5 as stated: with strength 1.0 and the gate off, each written sample is
\* float_to_s16 of the engine's output at the same index.
C5_Original ==
    (FrameDone /\ strength = FOne /\ ~useSpectralGating)
        => \A i \in Written : samples[LastPos(i)] = float_to_s16(engine_out[i])

\* C5 amended: with strength 1.0 and the gate off, each written sample is
\* within one quantization step of float_to_s16 of the engine's output at
\* the same index, and equal to it when the blend and the clamp leave that
\* output as it is.
C5_FullStrength ==
    (FrameDone /\ strength = FOne /\ ~useSpectralGating)
        => \A i \in Written :
              LET w == samples[LastPos(i)]
                  r == float_to_s16(engine_out[i])
              IN /\ Abs(w - r) <= 1
                 /\ float_out[i] = engine_out[i] => w = r

\* A full-strength frame where one sample is the requantized output and
\* another is one step from it.
C5_Witness ==
    /\ FrameDone /\ strength = FOne /\ ~useSpectralGating
    /\ samples_in_this_frame = RNNOISE_FRAME_SIZE
    /\ \E i \in Written :
          /\ float_out[i] = engine_out[i]
          /\ samples[LastPos(i)] = float_to_s16(engine_out[i])
          /\ samples[LastPos(i)] # input[LastPos(i)]
    /\ \E i \in Written : samples[LastPos(i)] # float_to_s16(engine_out[i])

C7_SpectralGate ==
    FrameDone
        => \A i \in Written :
              IF useSpectralGating
              THEN FLt(FAbs(blended[i]), gateThreshold) => samples[LastPos(i)] = 0
              ELSE samples[LastPos(i)] = float_to_s16(Clamp(blended[i]))

\* The gate zeroed a sample that was not zero without it, and let
\* another through.
C7_Witness ==
    /\ FrameDone /\ useSpectralGating
    /\ \E i \in Written :
          /\ FLt(FAbs(blended[i]), gateThreshold)
          /\ float_to_s16(Clamp(blended[i])) # 0
          /\ samples[LastPos(i)] = 0
    /\ \E i \in Written : samples[LastPos(i)] # 0

C9_OneEngine ==
    /\ Cardinality(Live) <= 1
    /\ \A id \in Live : rnnoise_state = id
    /\ destroy_calls = Cardinality(Gone)
    /\ pcL = "idle" => (rnnoise_state = NULL \/ rnnoise_state \in Live)
    /\ last_lifecycle = "unload_noop" => rnnoise_state = NULL

\* Two instances were created and destroyed in turn, and a further
\* JNI_OnUnload found nothing to do.
C9_Witness ==
    /\ last_lifecycle = "unload_noop"
    /\ destroy_calls = 2
    /\ Live = {}

\* C10: whatever the interleaving of JNI_OnLoad, JNI_OnUnload and a
\* processing call, the handle the call tests at line 75 and passes at
\* line 123 is null or a live instance, never a destroyed one.
C10_HandleLiveOrAbsent == ~stale_use

====
